---- MODULE Spec2Model ----
(***************************************************************************)
(* The glucose monitor widget of yasb: a worker thread (GlucoseMonitorWorker)*)
(* that fetches one reading per start, and the widget (GlucoseMonitor) whose *)
(* slots, run by the main thread's event loop, convert the reading, store    *)
(* it in _status_data and write the label widgets and the tooltip.           *)
(***************************************************************************)
EXTENDS Integers, Sequences, FiniteSets, TLC

\* ------------------------------------------------------------------ bounds
\* Starts of the worker (the one in __init__ and the timer's) in one behaviour.
MaxTriggers == 3
\* Signals posted to the main thread and not yet delivered.
MaxQueue == 2

\* The largest delta given to the converter, in halves (7 is 3.5 mg/dL).
MaxDelta2 == 7

\* The clock read by the slot, in seconds either side of the epoch used here.
MaxSeconds == 125

\* Tokens in a label template rendered on its own, and label widgets.
MaxTemplateLen == 4
MaxLabels == 2

\* ----------------------------------------------------------------- helpers
Min(S) == CHOOSE x \in S : \A y \in S : x <= y

Abs(n) == IF n < 0 THEN -n ELSE n

\* A division that cuts towards zero, as int(a / b) would.
TruncDiv(a, b) == IF a >= 0 THEN a \div b ELSE -((-a) \div b)

\* Python's // on integers: floor division (TLA+'s \div floors as well).
FloorDiv(a, b) == a \div b

\* ------------------------------------------------------ numbers and strings
\* A number of the response is kept as twice its value (an integer), so that
\* integers and half-integers are exact: 120 is 240, -3 is -6, 2.5 is 5.
\* A rounding that takes every tie upwards: floor(x + 0.5).
PyRoundHalfUp(v2) == (v2 + 1) \div 2

\* round(x) of Python 3: nearest integer, ties to the even one.
PyRound(v2) ==
    LET q == v2 \div 2
    IN IF v2 % 2 = 0 THEN q
       ELSE IF q % 2 = 0 THEN q ELSE q + 1

\* A formatting that cuts the digits after the first instead of rounding.
FormatMmolTruncates(v2) ==
    LET t == (Abs(v2) * 5) \div 18
    IN (IF v2 < 0 THEN "-" ELSE "") \o ToString(t \div 10) \o "." \o ToString(t % 10)

\* f"{x / 18:.1f}": x/18 to one fractional digit, ties to even; the sign of
\* a negative x is kept even when the digits are 0.0.
FormatMmol(v2) ==
    LET a  == Abs(v2) * 5            \* |x| / 18 in tenths is a / 18
        q  == a \div 18
        r  == a % 18
        t  == IF r * 2 < 18 THEN q
              ELSE IF r * 2 > 18 THEN q + 1
              ELSE IF q % 2 = 0 THEN q ELSE q + 1
    IN (IF v2 < 0 THEN "-" ELSE "") \o ToString(t \div 10) \o "." \o ToString(t % 10)

\* "mg/dl": lambda sgv: str(round(sgv))
FormatMgdl(v2) == ToString(PyRound(v2))

KnownUnits == {"mg/dl", "mmol/l"}

\* self._available_sgv_measurement_units.get(unit): the converter, or None.
HasConverter(unit) == unit \in KnownUnits

Convert(unit, v2) == IF unit = "mg/dl" THEN FormatMgdl(v2) ELSE FormatMmol(v2)

\* ----------------------------------------------------------- direction icons
\* direction_icons_mapping: configuration key -> trend code of the response.
direction_icons_mapping ==
    [ double_up |-> "DoubleUp", single_up |-> "SingleUp",
      forty_five_up |-> "FortyFiveUp", flat |-> "Flat",
      forty_five_down |-> "FortyFiveDown", single_down |-> "SingleDown",
      double_down |-> "DoubleDown" ]

\* DEFAULTS["direction_icons"] (the glyphs written in ASCII).
direction_icons ==
    [ double_up |-> "^^", single_up |-> "^", forty_five_up |-> "/^",
      flat |-> "->", forty_five_down |-> "\\v", single_down |-> "v",
      double_down |-> "vv" ]

KnownCodes == { direction_icons_mapping[k] : k \in DOMAIN direction_icons }

\* self._direction_icons = {mapping[key]: value for key, value in items}
DirectionIcons ==
    [ c \in KnownCodes |->
        direction_icons[CHOOSE k \in DOMAIN direction_icons :
                            direction_icons_mapping[k] = c] ]

\* ------------------------------------------------------------------- time
\* A dateString: the wall-clock seconds it spells, whether it has the
\* fraction ".ffffff", and its offset text ("" when it has none).
OffsetSeconds(tz) ==
    IF tz = "+0200" THEN 7200 ELSE IF tz = "-0100" THEN -3600 ELSE 0

\* strptime(date_string, "%Y-%m-%dT%H:%M:%S.%f%z") matches only a string
\* with a fraction and an offset.
StrptimeOk(ds) == ds.frac /\ ds.tz \in {"+0000", "+0200", "-0100", "Z"}

\* The instant (seconds, UTC) of a parsed dateString.
Strptime(ds) == ds.local - OffsetSeconds(ds.tz)

\* int((now - last_update_time).total_seconds() // 60)
MinutesSince(now, ts) == FloorDiv(now - ts, 60)

\* ------------------------------------------------------------ the worker
GenericMessage == "Error while loading response"

\* str(RuntimeError(f"Response status code should be 200 but got {status}"))
StatusMessage(status) ==
    "Response status code should be 200 but got " \o ToString(status)

ReadingFields == {"sgv", "delta", "dateString", "direction"}

\* What one HTTP exchange can yield: whether the transport worked, the final
\* status, and the body: its shape ("notjson", "emptyarray", or "array" whose
\* first element is an object), the fields that object has and their values.
Response(net, status, shape, fields, sgv, delta, ds, direction) ==
    [ net |-> net, status |-> status, shape |-> shape, fields |-> fields,
      sgv |-> sgv, delta |-> delta, dateString |-> ds, direction |-> direction ]

DateA     == [ local |-> 0,    frac |-> TRUE,  tz |-> "+0000" ]
DateB     == [ local |-> 7260, frac |-> TRUE,  tz |-> "+0200" ]
DateNaive == [ local |-> 0,    frac |-> TRUE,  tz |-> "" ]

Responses ==
    { Response("refused", 0, "notjson", {}, 0, 0, DateA, ""),
      Response("ok", 500, "notjson", {}, 0, 0, DateA, ""),
      Response("ok", 404, "array", ReadingFields, 240, -6, DateA, "Flat"),
      Response("ok", 204, "notjson", {}, 0, 0, DateA, ""),
      Response("ok", 201, "array", ReadingFields, 240, -6, DateA, "Flat"),
      Response("ok", 200, "notjson", {}, 0, 0, DateA, ""),
      Response("ok", 200, "emptyarray", {}, 0, 0, DateA, ""),
      Response("ok", 200, "array", ReadingFields \ {"direction"}, 240, -6, DateA, ""),
      Response("ok", 200, "array", ReadingFields, 240, -6, DateA, "Flat"),
      Response("ok", 200, "array", ReadingFields, 180, 5, DateB, "DoubleUp"),
      Response("ok", 200, "array", ReadingFields, 240, -6, DateA, "NOT COMPUTABLE"),
      Response("ok", 200, "array", ReadingFields, 240, -6, DateNaive, "Flat") }

\* urllib.request.urlopen raises URLError when the transport fails and
\* HTTPError for a final status outside 200..299.
UrlopenRaises(resp) == resp.net # "ok" \/ resp.status \notin 200..299

StatusUpdated(resp) ==
    [ sig |-> "status_updated", sgv |-> resp.sgv, sgv_delta |-> resp.delta,
      date_string |-> resp.dateString, direction |-> resp.direction,
      message |-> "", id |-> 0, status |-> 0 ]

ErrorSignal(message) ==
    [ sig |-> "error_signal", sgv |-> 0, sgv_delta |-> 0,
      date_string |-> DateA, direction |-> "", message |-> message,
      id |-> 0, status |-> 0 ]

\* The try block of run, in the order of its statements: urlopen, json.loads
\* of the body, the status check, data[0], the four subscripts, the emit;
\* RuntimeError gives its own text, any other exception the generic one.
Run(resp) ==
    IF UrlopenRaises(resp) THEN ErrorSignal(GenericMessage)
    ELSE IF resp.shape = "notjson" THEN ErrorSignal(GenericMessage)
    ELSE IF resp.status # 200 THEN ErrorSignal(StatusMessage(resp.status))
    ELSE IF resp.shape = "emptyarray" THEN ErrorSignal(GenericMessage)
    ELSE IF ~(ReadingFields \subseteq resp.fields) THEN ErrorSignal(GenericMessage)
    ELSE StatusUpdated(resp)

\* A start that begins run again whatever the thread is doing.
WorkerStartAlways(th) == "started"

\* QThread.start(): begins the thread, and does nothing when it is running.
WorkerStart(th) == IF th = "finished" THEN "started" ELSE th

\* An emission that posts the signal twice.
EmitTwice(q, ev) == Append(Append(q, ev), ev)

\* A delivery that puts the newest signal first.
EmitFirst(q, ev) == << ev >> \o q

\* A signal emitted in the worker thread is posted to the main thread's
\* event queue, behind the ones already posted (queued connection).
Emit(q, ev) == Append(q, ev)

\* ---------------------------------------------------------- the templates
\* A template is a sequence of tokens: an opening tag "<span ...>", a closing
\* tag "</span>", white space, a placeholder "{name}", or other text.
Open      == [ t |-> "open",  s |-> "<span>" ]
Close     == [ t |-> "close", s |-> "</span>" ]
Space     == [ t |-> "ws",    s |-> " " ]
Lit(s)    == [ t |-> "lit",   s |-> s ]
Field(n)  == [ t |-> "fld",   s |-> n ]

\* The text of a token as written in the template.
Raw(tok) == IF tok.t = "fld" THEN "{" \o tok.s \o "}" ELSE tok.s

RECURSIVE Concat(_)
Concat(strs) == IF strs = <<>> THEN "" ELSE Head(strs) \o Concat(Tail(strs))

\* re.split("(<span.*?>.*?</span>)", content): the leftmost opening tag that
\* has a closing tag after it, up to the first such closing tag, is a part of
\* its own; the text before it is a part, the rest is split the same way.
RECURSIVE ReSplit(_)
ReSplit(toks) ==
    LET n     == Len(toks)
        opens == { i \in 1..n : toks[i].t = "open"
                                /\ \E j \in (i+1)..n : toks[j].t = "close" }
    IN IF opens = {} THEN << toks >>
       ELSE LET i == Min(opens)
                j == Min({ k \in (i+1)..n : toks[k].t = "close" })
            IN << SubSeq(toks, 1, i-1), SubSeq(toks, i, j) >>
               \o ReSplit(SubSeq(toks, j+1, n))

\* list(filter(None, parts))
FilterNone(parts) == SelectSeq(parts, LAMBDA p : p # <<>>)

\* str.strip() on a token sequence.
RECURSIVE LStrip(_)
LStrip(toks) ==
    IF toks # <<>> /\ Head(toks).t = "ws" THEN LStrip(Tail(toks)) ELSE toks

RECURSIVE RStrip(_)
RStrip(toks) ==
    IF toks # <<>> /\ toks[Len(toks)].t = "ws"
    THEN RStrip(SubSeq(toks, 1, Len(toks) - 1)) ELSE toks

Strip(toks) == RStrip(LStrip(toks))

\* "<span" in part and "</span>" in part
IsIcon(part) ==
    /\ \E i \in 1..Len(part) : part[i].t = "open"
    /\ \E i \in 1..Len(part) : part[i].t = "close"

\* re.sub(r"<span.*?>|</span>", "", part).strip()
IconText(part) ==
    LET kept == Strip(SelectSeq(part, LAMBDA tok : tok.t \notin {"open", "close"}))
    IN Concat([ i \in 1..Len(kept) |-> Raw(kept[i]) ])

\* str.format_map(data) raises KeyError for a field that data lacks.
FormatRaises(toks, data) ==
    \E i \in 1..Len(toks) : toks[i].t = "fld" /\ toks[i].s \notin DOMAIN data

\* str(data[name]): the minutes are the one value kept as an integer.
Str(name, data) ==
    IF name = "delta_time_in_minutes" THEN ToString(data[name]) ELSE data[name]

\* str.format_map(data): every placeholder replaced by str() of its value.
FormatMap(toks, data) ==
    Concat([ i \in 1..Len(toks) |->
               IF toks[i].t = "fld" THEN Str(toks[i].s, data) ELSE toks[i].s ])

\* The loop of _update_label from part number k on: the widgets it leaves,
\* and whether a format_map raised (which ends the loop there).
RECURSIVE LabelLoop(_, _, _, _, _)
LabelLoop(parts, k, widgets, widget_index, data) ==
    IF k > Len(parts) THEN [ widgets |-> widgets, raised |-> FALSE ]
    ELSE LET part == Strip(parts[k])
         IN IF part = <<>> \/ widget_index >= Len(widgets)
            THEN LabelLoop(parts, k + 1, widgets, widget_index, data)
            ELSE IF IsIcon(part)
            THEN LabelLoop(parts, k + 1,
                           [ widgets EXCEPT ![widget_index + 1] = IconText(part) ],
                           widget_index + 1, data)
            ELSE IF FormatRaises(part, data)
            THEN [ widgets |-> widgets, raised |-> TRUE ]
            ELSE LabelLoop(parts, k + 1,
                           [ widgets EXCEPT ![widget_index + 1] = FormatMap(part, data) ],
                           widget_index + 1, data)

\* _update_label: the label widgets, then the tooltip when one is configured.
UpdateLabel(label_content, tooltip, widgets, tip, data) ==
    LET loop == LabelLoop(FilterNone(ReSplit(label_content)), 1, widgets, 0, data)
    IN IF loop.raised
       THEN [ widgets |-> loop.widgets, tip |-> tip, raised |-> "KeyError" ]
       ELSE IF tooltip = <<>>
       THEN [ widgets |-> loop.widgets, tip |-> tip, raised |-> "" ]
       ELSE IF FormatRaises(tooltip, data)
       THEN [ widgets |-> loop.widgets, tip |-> tip, raised |-> "KeyError" ]
       ELSE [ widgets |-> loop.widgets, tip |-> FormatMap(tooltip, data),
              raised |-> "" ]

\* ------------------------------------------------------------- the slots
WrongUnitsMessage == "Wrong measurement units"

\* An error slot that also blanks the Rendered State.
HandleErrorSignalBlanks(message, data, widgets, tip, shown) ==
    [ data |-> <<>>, widgets |-> widgets, tip |-> tip,
      shown |-> Append(shown, message), raised |-> "", mapped |-> "" ]

\* _handle_error_signal: a toast with the message, and nothing else.
HandleErrorSignal(message, data, widgets, tip, shown) ==
    [ data |-> data, widgets |-> widgets, tip |-> tip,
      shown |-> Append(shown, message), raised |-> "", mapped |-> "" ]

\* A slot that, once there is data, overwrites the two glucose fields only.
HandleStatusUpdateInPlace(ev, now, units, label_content, tooltip, data, widgets, tip, shown) ==
    IF ~StrptimeOk(ev.date_string)
          \/ ev.direction \notin DOMAIN DirectionIcons
          \/ ~HasConverter(units)
    THEN [ data |-> data, widgets |-> widgets, tip |-> tip, shown |-> shown,
           raised |-> "Error", mapped |-> "" ]
    ELSE LET full == [ sgv |-> Convert(units, ev.sgv),
                       sgv_delta |-> Convert(units, ev.sgv_delta),
                       delta_time_in_minutes |->
                           MinutesSince(now, Strptime(ev.date_string)),
                       direction |-> DirectionIcons[ev.direction] ]
             new  == IF DOMAIN data = {} THEN full
                     ELSE [ data EXCEPT !.sgv = full.sgv,
                                        !.sgv_delta = full.sgv_delta ]
             upd  == UpdateLabel(label_content, tooltip, widgets, tip, new)
         IN [ data |-> new, widgets |-> upd.widgets, tip |-> upd.tip,
              shown |-> shown, raised |-> upd.raised,
              mapped |-> ev.direction ]

\* _handle_status_update, statement by statement; an exception ends it where
\* it is raised and leaves the slot ("raised" names it, "" for none).
\* "mapped" is the code the direction table was subscripted with.
HandleStatusUpdate(ev, now, units, label_content, tooltip, data, widgets, tip, shown) ==
    IF ~StrptimeOk(ev.date_string)
    THEN [ data |-> data, widgets |-> widgets, tip |-> tip, shown |-> shown,
           raised |-> "ValueError", mapped |-> "" ]
    ELSE IF ev.direction \notin DOMAIN DirectionIcons
    THEN [ data |-> data, widgets |-> widgets, tip |-> tip, shown |-> shown,
           raised |-> "KeyError", mapped |-> ev.direction ]
    ELSE IF ~HasConverter(units)
    THEN [ data |-> data, widgets |-> widgets, tip |-> tip,
           shown |-> Append(shown, WrongUnitsMessage),
           raised |-> "TypeError", mapped |-> ev.direction ]
    ELSE LET new == [ sgv |-> Convert(units, ev.sgv),
                      sgv_delta |-> Convert(units, ev.sgv_delta),
                      delta_time_in_minutes |->
                          MinutesSince(now, Strptime(ev.date_string)),
                      direction |-> DirectionIcons[ev.direction] ]
             upd == UpdateLabel(label_content, tooltip, widgets, tip, new)
         IN [ data |-> new, widgets |-> upd.widgets, tip |-> upd.tip,
              shown |-> shown, raised |-> upd.raised,
              mapped |-> ev.direction ]

\* Nothing in the slot catches an exception, so it leaves the slot: PyQt6
\* then ends the process (qFatal), unless the application has installed a
\* sys.excepthook of its own, which lets the event loop go on.
SlotOutcomes(raised) == IF raised = "" THEN { TRUE } ELSE { TRUE, FALSE }

\* ------------------------------------------------------- the configuration
DefaultLabel == << Lit("B"), Field("sgv"), Field("direction") >>
IconLabel    == << Open, Lit("I"), Close, Space, Field("sgv"), Field("direction") >>
TrendLabel   == << Field("sgv"), Open, Lit("I"), Close, Field("trend") >>

DefaultTooltip == << Lit("("), Field("sgv_delta"), Lit(") "),
                     Field("delta_time_in_minutes"), Lit(" min") >>
AgeTooltip     == << Field("age") >>

Config(units, label, tooltip, n) ==
    [ units |-> units, label |-> label, tooltip |-> tooltip, widgets |-> n ]

\* The configurations explored: the unit, the two templates and the number
\* of label widgets that build_widget_label made.
Configs ==
    { Config("mg/dl",  DefaultLabel, DefaultTooltip, 1),
      Config("mmol/l", IconLabel,    DefaultTooltip, 2),
      Config("mmol",   DefaultLabel, DefaultTooltip, 1),
      Config("mg/dl",  TrendLabel,   DefaultTooltip, 3),
      Config("mg/dl",  IconLabel,    AgeTooltip,     2),
      Config("mmol/l", IconLabel,    <<>>,           1) }

\* The instants (seconds, UTC) the clock can show when a slot reads it.
Nows == { -1, 120 }

\* --------------------------------------------------------------- the state
VARIABLES
    _sgv_measurement_units,  \* configuration: the unit
    _label_content,          \* configuration: the label template
    _tooltip,                \* configuration: the tooltip template
    running,                 \* GlucoseMonitorWorker.running
    thread,                  \* the worker thread: "finished", "started", "fetching"
    inflight,                \* HTTP requests issued and not yet answered
    queue,                   \* signals posted to the main thread, oldest first
    main,                    \* the main thread: "loop" or "wait" (inside stop)
    alive,                   \* the process has not been ended
    timerActive,             \* _update_timer is running
    _status_data,            \* the Rendered State
    _widgets,                \* the texts of the label widgets
    tooltipText,             \* the tooltip of the container
    toasts,                  \* the messages shown by ToastNotifier, in order
    triggersIdle,            \* starts received with the thread finished
    triggersBusy,            \* starts received with the thread running
    requests,                \* HTTP requests issued so far
    failures,                \* poll cycles that have failed so far
    handled,                 \* number of the request whose signal a slot ran last
    stopped,                 \* stop has returned
    lateSlots,               \* slots run after stop returned
    mapperArg,               \* the code the direction table was last subscripted with
    raisedInSlot             \* the exception that left the last slot run, "" if none

\* One call of a function of the widget on its own, outside a poll cycle:
\* what was called with which arguments, and what it gave.
VARIABLES
    call,                    \* the function and its arguments
    result                   \* its result

NoCall == [ fn |-> "none" ]

calls == << call, result >>
config == << _sgv_measurement_units, _label_content, _tooltip >>
display == << _status_data, _widgets, tooltipText >>
ghost == << triggersIdle, triggersBusy, requests, failures, handled, stopped,
            lateSlots, mapperArg, raisedInSlot >>
widget == << config, running, thread, inflight, queue, main, alive,
            timerActive, display, toasts, ghost >>
vars == << widget, calls >>

\* The state when GlucoseMonitor.__init__ returns: no data, the timer
\* running, the worker started once. The texts that build_widget_label gave
\* the label widgets are never read, and are written as "".
InitWith(cs) ==
    /\ \E c \in cs :
         /\ _sgv_measurement_units = c.units
         /\ _label_content = c.label
         /\ _tooltip = c.tooltip
         /\ _widgets = [ i \in 1..c.widgets |-> "" ]
    /\ running = TRUE
    /\ thread = WorkerStart("finished")
    /\ inflight = 0
    /\ queue = <<>>
    /\ main = "loop"
    /\ alive = TRUE
    /\ timerActive = TRUE
    /\ _status_data = <<>>
    /\ tooltipText = ""
    /\ toasts = <<>>
    /\ triggersIdle = 1
    /\ triggersBusy = 0
    /\ requests = 0
    /\ failures = 0
    /\ handled = 0
    /\ stopped = FALSE
    /\ lateSlots = 0
    /\ mapperArg = ""
    /\ raisedInSlot = ""

Init == InitWith(Configs) /\ call = NoCall /\ result = ""

\* The timer's timeout, run by the event loop: self._worker.start().
TimerTick ==
    /\ alive /\ main = "loop" /\ timerActive
    /\ triggersIdle + triggersBusy < MaxTriggers
    /\ thread' = WorkerStart(thread)
    /\ IF thread = "finished"
       THEN triggersIdle' = triggersIdle + 1 /\ UNCHANGED triggersBusy
       ELSE triggersBusy' = triggersBusy + 1 /\ UNCHANGED triggersIdle
    /\ UNCHANGED << calls, config, running, inflight, queue, main, alive, timerActive,
                    display, toasts, requests, failures, handled, stopped,
                    lateSlots, mapperArg, raisedInSlot >>

\* run, first statement, with running false: return.
RunReturns ==
    /\ alive /\ thread = "started" /\ ~running
    /\ thread' = "finished"
    /\ UNCHANGED << calls, config, running, inflight, queue, main, alive, timerActive,
                    display, toasts, ghost >>

\* run with running true: urlopen sends the request.
RunRequests ==
    /\ alive /\ thread = "started" /\ running
    /\ thread' = "fetching"
    /\ inflight' = inflight + 1
    /\ requests' = requests + 1
    /\ UNCHANGED << calls, config, running, queue, main, alive, timerActive, display,
                    toasts, triggersIdle, triggersBusy, failures, handled,
                    stopped, lateSlots, mapperArg, raisedInSlot >>

\* The exchange ends: the rest of run emits one signal, and the thread ends.
RunCompletes ==
    /\ alive /\ thread = "fetching" /\ Len(queue) < MaxQueue
    /\ \E resp \in Responses :
         LET ev == Run(resp)
         \* id and status are bookkeeping: the number of the request and
         \* the status of its exchange (0 when there was no response).
         IN /\ queue' = Emit(queue, [ ev EXCEPT !.id = requests,
                                                !.status = resp.status ])
            /\ failures' = IF ev.sig = "error_signal" THEN failures + 1 ELSE failures
    /\ thread' = "finished"
    /\ inflight' = inflight - 1
    /\ UNCHANGED << calls, config, running, main, alive, timerActive, display, toasts,
                    triggersIdle, triggersBusy, requests, handled, stopped,
                    lateSlots, mapperArg, raisedInSlot >>

\* The event loop delivers the oldest posted signal to its slot.
Deliver ==
    /\ alive /\ main = "loop" /\ queue # <<>>
    /\ \E now \in Nows :
         LET ev  == Head(queue)
             out == IF ev.sig = "status_updated"
                    THEN HandleStatusUpdate(ev, now, _sgv_measurement_units,
                                            _label_content, _tooltip, _status_data,
                                            _widgets, tooltipText, toasts)
                    ELSE HandleErrorSignal(ev.message, _status_data, _widgets,
                                           tooltipText, toasts)
         IN /\ _status_data' = out.data
            /\ _widgets' = out.widgets
            /\ tooltipText' = out.tip
            /\ toasts' = out.shown
            /\ raisedInSlot' = out.raised
            /\ mapperArg' = IF out.mapped # "" THEN out.mapped ELSE mapperArg
            /\ alive' \in SlotOutcomes(out.raised)
            /\ failures' = IF out.raised # "" THEN failures + 1 ELSE failures
            /\ handled' = ev.id
    /\ queue' = Tail(queue)
    /\ lateSlots' = IF stopped THEN lateSlots + 1 ELSE lateSlots
    /\ UNCHANGED << calls, config, running, thread, inflight, main, timerActive,
                    triggersIdle, triggersBusy, requests, stopped >>

\* GlucoseMonitorWorker.stop, called on the main thread: clears the flag and
\* enters wait().
StopBegins ==
    /\ alive /\ main = "loop"
    /\ running' = FALSE
    /\ main' = "wait"
    /\ UNCHANGED << calls, config, thread, inflight, queue, alive, timerActive,
                    display, toasts, ghost >>

\* wait() returns once the thread has finished, and stop returns.
StopReturns ==
    /\ alive /\ main = "wait" /\ thread = "finished"
    /\ main' = "loop"
    /\ stopped' = TRUE
    /\ UNCHANGED << calls, config, running, thread, inflight, queue, alive,
                    timerActive, display, toasts, triggersIdle, triggersBusy,
                    requests, failures, handled, lateSlots, mapperArg,
                    raisedInSlot >>

Next ==
    \/ TimerTick
    \/ RunReturns
    \/ RunRequests
    \/ RunCompletes
    \/ Deliver
    \/ StopBegins
    \/ StopReturns

Spec == Init /\ [][Next]_vars

\* ------------------------------------------- the functions on their own
\* The values of sgv given to the converter, in halves: 0, 1, 90, 120, 121
\* and 400 mg/dL (the signal carries sgv as an integer).
SgvValues == { 0, 2, 180, 240, 242, 800 }

\* Lines 186-187 on their own: the converter of a known unit applied to sgv
\* and to delta.
ConvertReading ==
    \E unit \in KnownUnits, sgv \in SgvValues, delta \in (-MaxDelta2)..MaxDelta2 :
        /\ call = NoCall
        /\ call' = [ fn |-> "convert", unit |-> unit, sgv |-> sgv, delta |-> delta ]
        /\ result' = << Convert(unit, sgv), Convert(unit, delta) >>
        /\ UNCHANGED widget

DateZ    == [ local |-> 30, frac |-> TRUE, tz |-> "Z" ]
DateWest == [ local |-> 0,  frac |-> TRUE, tz |-> "-0100" ]

DateStrings == { DateA, DateB, DateZ, DateWest, DateNaive }

\* Lines 178-180 on their own: the clock, strptime and the minutes; the
\* result is the exception raised ("" for none) and the minutes.
ComputeMinutes ==
    \E ds \in DateStrings, now \in (-MaxSeconds)..MaxSeconds :
        /\ call = NoCall
        /\ call' = [ fn |-> "minutes", date_string |-> ds, now |-> now ]
        /\ result' = IF StrptimeOk(ds)
                     THEN << "", MinutesSince(now, Strptime(ds)) >>
                     ELSE << "ValueError", 0 >>
        /\ UNCHANGED widget

\* The tokens of the label templates rendered on their own.
Alphabet == { Open, Close, Space, Lit("x"), Field("sgv"), Field("trend") }

LabelTemplates == UNION { [ 1..k -> Alphabet ] : k \in 0..MaxTemplateLen }

\* The Rendered State of Scenario A.
ScenarioData ==
    [ sgv |-> "120", sgv_delta |-> "-3", delta_time_in_minutes |-> 2,
      direction |-> "->" ]

\* _update_label on its own: a label template, n label widgets showing
\* "old", no tooltip, the Rendered State of Scenario A.
RenderLabel ==
    \E template \in LabelTemplates, n \in 0..MaxLabels :
        /\ call = NoCall
        /\ call' = [ fn |-> "render", template |-> template, n |-> n ]
        /\ result' = UpdateLabel(template, <<>>, [ i \in 1..n |-> "old" ], "",
                                 ScenarioData)
        /\ UNCHANGED widget

\* os.getenv gives None or the string the variable holds.
None == [ set |-> FALSE, s |-> "" ]
Some(s) == [ set |-> TRUE, s |-> s ]

SecretLiterals == { "", "abc", "env", "s3cret" }
EnvValues == { None, Some(""), Some("s3cret") }
Host == "https://ns.example"

\* secret != "env" and secret or os.getenv(secret_env_name): the literal
\* when it is neither "env" nor falsy (the empty string), the environment
\* otherwise.
ResolveSecret(secret, env) ==
    IF secret # "env" /\ secret # "" THEN Some(secret) ELSE env

\* hashlib.sha1(secret.encode()).hexdigest()
Sha1Hex(secret) ==
    CASE secret = ""       -> "da39a3ee5e6b4b0d3255bfef95601890afd80709"
      [] secret = "abc"    -> "a9993e364706816aba3e25717850c26c9cd0d89d"
      [] secret = "env"    -> "920f8f5815b381ea692e9e7c2f7119f2b1aa620a"
      [] secret = "s3cret" -> "fef341f85d87439e7d91a2d465b9871ef66b5e98"

\* GlucoseMonitorWorker.set_url: the URL as its three pieces; None has no
\* encode().
set_url(host, secret) ==
    IF ~secret.set
    THEN [ raised |-> "AttributeError", url |-> <<>> ]
    ELSE [ raised |-> "",
           url |-> << host, "/api/v1/entries/current.json?secret=",
                      Sha1Hex(secret.s) >> ]

\* The secret of the constructor on its own: resolved, then given to set_url.
SetSecret ==
    \E secret \in SecretLiterals, env \in EnvValues :
        /\ call = NoCall
        /\ call' = [ fn |-> "set_url", secret |-> secret, env |-> env ]
        /\ result' = set_url(Host, ResolveSecret(secret, env))
        /\ UNCHANGED widget

FnInit == InitWith({ Config("mg/dl", DefaultLabel, DefaultTooltip, 1) })
          /\ call = NoCall /\ result = ""

FnNext ==
    \/ ConvertReading
    \/ ComputeMinutes
    \/ RenderLabel
    \/ SetSecret

FnSpec == FnInit /\ [][FnNext]_vars

\* ================================================================ claims

\* ---- C1: in every reachable state at most one HTTP request is outstanding;
\* a start that arrives while the worker thread runs begins no second one.
C1_AtMostOneOutstanding == inflight <= 1

\* A start arrived while the request was outstanding, and it still is the
\* only one.
C1_Witness == triggersBusy > 0 /\ thread = "fetching" /\ inflight = 1

\* ---- C2: starts received while the thread runs are dropped, not queued:
\* the requests issued never exceed the starts received with the thread
\* finished, and a finished thread leaves no request behind.
C2_TriggersDropped ==
    /\ requests <= triggersIdle
    /\ thread = "finished" => inflight = 0

\* Scenario E: two starts arrived while the one request was outstanding, the
\* request has completed, and no other request was issued.
C2_Witness ==
    /\ triggersBusy = 2 /\ triggersIdle = 1
    /\ requests = 1 /\ thread = "finished" /\ queue # <<>>

C4_FailureNeverEndsProcess == failures > 0 => alive

\* The error signals posted and not yet delivered.
PendingErrors == Len(SelectSeq(queue, LAMBDA ev : ev.sig = "error_signal"))

\* ---- C5 (as claimed): every failed cycle delivers exactly one message to
\* the error sink: the messages shown and those still posted are as many as
\* the cycles that failed.
C5_OneMessagePerFailure == Len(toasts) + PendingErrors = failures

\* ---- C6 (as claimed): once stop has returned, no slot of a fetch runs.
C6_NoSlotAfterStop == stopped => lateSlots = 0

\* ---- C7: the slots run in the order in which the fetches completed: the
\* posted signals are in the order of their requests, and all of them are
\* newer than the one a slot ran last.
C7_CompletionOrder ==
    \A i \in 1..Len(queue) :
        /\ queue[i].id > handled
        /\ \A j \in 1..(i-1) : queue[j].id < queue[i].id

\* Two fetches have completed with a reading each, the older is first in the
\* queue, and neither slot has run yet.
C7_Witness ==
    /\ Len(queue) = 2
    /\ queue[1].sig = "status_updated" /\ queue[2].sig = "status_updated"
    /\ queue[1].sgv # queue[2].sgv
    /\ handled = 0

\* ---- C8 (as claimed): for every status other than 200 the message of the
\* error carries the status code.
C8_BadStatusCarriesCode ==
    \A i \in 1..Len(queue) :
        queue[i].status \notin {0, 200}
        => /\ queue[i].sig = "error_signal"
           /\ queue[i].message = StatusMessage(queue[i].status)

\* ---- C9 (as claimed): a response with a direction outside the seven codes
\* emits no status update, and the direction table is never subscripted
\* with such a code.
C9_UnknownCodeRejected ==
    /\ \A i \in 1..Len(queue) :
         queue[i].sig = "status_updated" => queue[i].direction \in KnownCodes
    /\ mapperArg \in KnownCodes \cup { "" }

\* ---- C10 (as claimed): with a unit that has no converter, a status update
\* shows "Wrong measurement units" and the cycle ends there, without a
\* further failure and without touching the display.
C10_WrongUnitsAbortsCycle ==
    (~HasConverter(_sgv_measurement_units) /\ mapperArg \in KnownCodes)
    => /\ \E i \in 1..Len(toasts) : toasts[i] = WrongUnitsMessage
       /\ _status_data = <<>>
       /\ raisedInSlot = ""

\* ---- C11 (as claimed): when a template names a field that the Rendered
\* State lacks, the render of that cycle changes no label widget and no
\* tooltip.
C11_RenderAbortedAsWhole ==
    [][ ( /\ queue # <<>> /\ queue' = Tail(queue)
          /\ Head(queue).sig = "status_updated"
          /\ Head(queue).direction \in KnownCodes
          /\ raisedInSlot' = "KeyError" )
        => ( _widgets' = _widgets /\ tooltipText' = tooltipText ) ]_vars

\* The two integers next to v2 / 2.
Neighbours(v2) == { v2 \div 2, (v2 + 1) \div 2 }

\* ---- C12 (as claimed): with "mg/dl" the converter gives the nearest
\* integer as a plain integer string, a tie going away from zero.
C12_TiesAwayFromZero ==
    (call.fn = "convert" /\ call.unit = "mg/dl")
    => \A k \in 1..2 :
         LET v2 == IF k = 1 THEN call.sgv ELSE call.delta
         IN \E n \in Neighbours(v2) :
              /\ Abs(2 * n - v2) <= 1
              /\ Abs(2 * n - v2) = 1 => 2 * Abs(n) > Abs(v2)
              /\ result[k] = ToString(n)

\* ---- C12 (amended): with "mg/dl" the converter gives the nearest integer
\* as a plain integer string, a tie going to the even integer (2.5 gives
\* "2", -2.5 gives "-2", 0.5 gives "0", 1.5 gives "2"); a negative delta
\* keeps its sign.
C12_TiesToEven ==
    (call.fn = "convert" /\ call.unit = "mg/dl")
    => /\ \A k \in 1..2 :
            LET v2 == IF k = 1 THEN call.sgv ELSE call.delta
            IN \E n \in Neighbours(v2) :
                 /\ Abs(2 * n - v2) <= 1
                 /\ Abs(2 * n - v2) = 1 => n % 2 = 0
                 /\ result[k] = ToString(n)
       /\ call.delta = 5  => result[2] = "2"
       /\ call.delta = -5 => result[2] = "-2"
       /\ call.delta = 1  => result[2] = "0"
       /\ call.delta = 3  => result[2] = "2"
       /\ call.delta = -6 => result[2] = "-3"

\* The converter of "mg/dl" was given sgv 120 and the tie delta 2.5.
C12_Witness ==
    /\ call.fn = "convert" /\ call.unit = "mg/dl"
    /\ call.sgv = 240 /\ call.delta = 5
    /\ result = << "120", "2" >>

\* ---- C13: with "mmol/l" the converter gives value / 18 to the nearest
\* tenth, written with exactly one fractional digit, for sgv and for delta,
\* a negative delta keeping its sign; sgv 120 with delta -3 gives "6.7" and
\* "-0.2".
C13_MmolOneDigit ==
    (call.fn = "convert" /\ call.unit = "mmol/l")
    => /\ \A k \in 1..2 :
            LET v2 == IF k = 1 THEN call.sgv ELSE call.delta
                a  == 5 * Abs(v2)         \* |value| / 18 is a / 18 tenths
            IN \E t \in { a \div 18, a \div 18 + 1 } :
                 /\ 2 * Abs(18 * t - a) <= 18
                 /\ result[k] = (IF v2 < 0 THEN "-" ELSE "")
                                \o ToString(t \div 10) \o "." \o ToString(t % 10)
       /\ (call.sgv = 240 /\ call.delta = -6) => result = << "6.7", "-0.2" >>

\* Scenario B: sgv 120 and delta -3 with "mmol/l".
C13_Witness ==
    /\ call.fn = "convert" /\ call.unit = "mmol/l"
    /\ call.sgv = 240 /\ call.delta = -6
    /\ result = << "6.7", "-0.2" >>

\* The instant a dateString with an offset names: its wall-clock seconds
\* moved by the offset.
InstantOf(ds) ==
    ds.local - (IF ds.tz = "+0200" THEN 2 * 3600
                ELSE IF ds.tz = "-0100" THEN -3600 ELSE 0)

\* ---- C14: delta_time_in_minutes is the floor of the seconds between the
\* reading and now over 60, also when the reading lies in the future (-1
\* second gives -1 minute), and it does not decrease as now advances (119
\* seconds give 1, 120 give 2).
C14_MinutesFloor ==
    (call.fn = "minutes" /\ call.date_string.tz # "")
    => LET ts == InstantOf(call.date_string)
           d  == call.now - ts
       IN /\ result[1] = ""
          /\ 60 * result[2] <= d /\ d < 60 * result[2] + 60
          /\ d = -1 => result[2] = -1
          /\ d = 119 => result[2] = 1
          /\ d = 120 => result[2] = 2
          /\ \A later \in call.now..MaxSeconds :
                MinutesSince(later, ts) >= result[2]

\* A reading one second in the future gave -1.
C14_Witness ==
    /\ call.fn = "minutes" /\ call.date_string = DateB
    /\ call.now = 59 /\ result = << "", -1 >>

StatusFields == { "sgv", "sgv_delta", "delta_time_in_minutes", "direction" }

\* ---- C15: _status_data is empty, or it has exactly the four fields and
\* all four come from one and the same reading (and one reading of the
\* clock).
C15_WholeReading ==
    \/ DOMAIN _status_data = {}
    \/ /\ DOMAIN _status_data = StatusFields
       /\ \E resp \in Responses, now \in Nows :
            /\ Run(resp).sig = "status_updated"
            /\ resp.dateString.tz # ""
            /\ resp.direction \in KnownCodes
            /\ _status_data.sgv = Convert(_sgv_measurement_units, resp.sgv)
            /\ _status_data.sgv_delta = Convert(_sgv_measurement_units, resp.delta)
            /\ _status_data.delta_time_in_minutes
                 = (now - InstantOf(resp.dateString)) \div 60
            /\ _status_data.direction = DirectionIcons[resp.direction]

\* A second reading, different from the first in every field, has replaced
\* the first.
C15_Witness ==
    /\ handled = 2 /\ toasts = <<>> /\ raisedInSlot = ""
    /\ DOMAIN _status_data = StatusFields
    /\ _status_data.direction = "^^"
    /\ _widgets[1] = "B90^^"
    /\ tooltipText # ""

\* The fragments of a template in template order: what the split gives,
\* stripped, without the empty ones.
Fragments(template) ==
    LET parts == ReSplit(template)
    IN SelectSeq([ i \in 1..Len(parts) |-> Strip(parts[i]) ],
                 LAMBDA f : f # <<>>)

\* An icon fragment: a match of the pattern, from its opening tag to its
\* closing tag.
IsMarker(frag) == Head(frag).t = "open" /\ frag[Len(frag)].t = "close"

\* Every placeholder of the template names a field of the Rendered State.
FieldsKnown(template) ==
    \A i \in 1..Len(template) :
        template[i].t = "fld" => template[i].s \in StatusFields

\* What the claim gives widget k: the k-th fragment, an icon fragment
\* verbatim without its tags, a text fragment with its fields substituted.
Displayed(frag) ==
    IF IsMarker(frag) THEN IconText(frag) ELSE FormatMap(frag, ScenarioData)

OrderKept ==
    LET frags == Fragments(call.template)
    IN /\ Len(result.widgets) = call.n
       /\ \A k \in 1..call.n :
            result.widgets[k] = IF k <= Len(frags) THEN Displayed(frags[k])
                                ELSE "old"

\* ---- C16: for any template (whose fields the Rendered State
\* has) and any number of widgets, widget k shows the k-th non-empty
\* fragment in template order, and the widgets beyond the fragments are
\* left alone.
C16_OrderKept ==
    (call.fn = "render" /\ FieldsKnown(call.template)) => OrderKept

\* ---- C17: a status update whose dateString has no offset is handled with
\* the dateString read as UTC: the slot does not fail, and the Rendered
\* State gets the whole minutes between that UTC instant and now.
C17_NaiveDateIsUtc ==
    [][ ( /\ queue # <<>>
          /\ Head(queue).sig = "status_updated"
          /\ Head(queue).date_string.tz = ""
          /\ Head(queue).direction \in KnownCodes
          /\ HasConverter(_sgv_measurement_units)
          /\ queue' = Tail(queue) )
        => /\ raisedInSlot' # "ValueError"
           /\ DOMAIN _status_data' = StatusFields
           /\ \E now \in Nows :
                _status_data'.delta_time_in_minutes
                    = (now - Head(queue).date_string.local) \div 60 ]_vars

\* ---- C18: the secret is the environment variable's value exactly when
\* the literal is "env"; every other literal, the empty one included, is the
\* secret itself; the URL carries the SHA-1 hex digest of the secret and no
\* piece of the URL is the secret in plain text.
C18_SecretResolution ==
    call.fn = "set_url"
    => LET secret == IF call.secret = "env" THEN call.env ELSE Some(call.secret)
       IN secret.set
          => /\ result.raised = ""
             /\ result.url = << Host, "/api/v1/entries/current.json?secret=",
                                Sha1Hex(secret.s) >>
             /\ \A i \in 1..Len(result.url) :
                    secret.s # "" => result.url[i] # secret.s

\* ---- C19: a status update whose direction is outside the seven trend
\* codes is handled without an exception leaving the slot.
C19_MapperFailsClosed ==
    [][ ( /\ queue # <<>>
          /\ Head(queue).sig = "status_updated"
          /\ StrptimeOk(Head(queue).date_string)
          /\ Head(queue).direction \notin KnownCodes
          /\ queue' = Tail(queue) )
        => raisedInSlot' = "" ]_vars

\* ---- C20: a run that found the running flag true posts exactly one
\* signal, status_updated or error_signal, behind those already posted; a
\* run that found it false ends without a request and without a signal;
\* requests are only made with the flag true, and once stop has returned
\* there is no request and no signal any more, and the flag stays false.
C20_OneSignalPerRun ==
    [][ /\ (thread = "fetching" /\ thread' = "finished")
           => /\ Len(queue') = Len(queue) + 1
              /\ SubSeq(queue', 1, Len(queue)) = queue
              /\ queue'[Len(queue')].sig \in { "status_updated", "error_signal" }
        /\ (thread = "started" /\ ~running /\ thread' # thread)
           => /\ thread' = "finished"
              /\ queue' = queue
              /\ requests' = requests
        /\ requests' # requests => running
        /\ stopped => /\ requests' = requests
                      /\ Len(queue') <= Len(queue)
                      /\ ~running' ]_vars

\* One run made a request and posted its one signal; after stop a later
\* start has run and returned at once.
C20_Witness ==
    /\ stopped /\ ~running /\ thread = "finished"
    /\ requests = 1 /\ Len(queue) = 1 /\ handled = 0
    /\ triggersIdle = 2

====
